---- MODULE Spec2Model ----
(***************************************************************************)
(* Model of the Space Explorer dashboard (src/src/App.jsx): the App        *)
(* component's six state cells, the asynchronous fetchSolarSystemData      *)
(* handler with its two suspension points, the filter effect, the two      *)
(* input handlers, and the statistics and guards computed during render.   *)
(*                                                                         *)
(* Values.  A JavaScript value that can be of several types is a tagged    *)
(* record [typeof, num, str].  A string is a sequence of pieces: one       *)
(* character each for the strings that are searched, the whole text for    *)
(* the others.  A number printed by toFixed(2) is the integer number of    *)
(* hundredths it denotes.  Radii and distances are whole kilometres.       *)
(*                                                                         *)
(* Scheduling.  An effect whose dependencies changed runs after the        *)
(* render that changed them and before any later update is processed, so   *)
(* every other action waits while filterPending holds.  On mount the       *)
(* effects run in the order of their definition: the fetch effect, then    *)
(* the filter effect.  The updates made after the last await of            *)
(* fetchSolarSystemData are applied in one render.  An error thrown by an  *)
(* effect unmounts the component tree, there being no error boundary.      *)
(***************************************************************************)
EXTENDS Integers, Sequences, FiniteSets

VARIABLES
    celestialObjects,   \* useState([])      line 5
    filteredObjects,    \* useState([])      line 6
    loading,            \* useState(true)    line 7
    searchTerm,         \* useState('')      line 8
    objectType,         \* useState('all')   line 9
    error,              \* useState(null)    line 10
    pc,                 \* position of fetchSolarSystemData
    data,               \* the parsed payload, local of fetchSolarSystemData
    outcome,            \* what the endpoint delivered to the one request
    requests,           \* number of requests issued to the endpoint
    filterPending,      \* the filter effect is scheduled (its deps changed)
    crashed             \* an effect threw: React unmounted the tree

vars == << celestialObjects, filteredObjects, loading, searchTerm, objectType,
           error, pc, data, outcome, requests, filterPending, crashed >>

----------------------------------------------------------------------------
(* Bounds of the model *)

MaxRaw == 20

MaxPeriod == 2

MaxSearchLen == 2

----------------------------------------------------------------------------
(* JavaScript values *)

Undefined == [typeof |-> "undefined", num |-> 0, str |-> << >>]

Null == [typeof |-> "null", num |-> 0, str |-> << >>]

Num(n) == [typeof |-> "number", num |-> n, str |-> << >>]

Str(s) == [typeof |-> "string", num |-> 0, str |-> s]

\* the string toFixed(2) prints for the given number of hundredths
Fixed2(hundredths) == [typeof |-> "string", num |-> hundredths, str |-> <<"toFixed">>]

\* an array of the given length (only the length of moons is ever read)
Arr(len) == [typeof |-> "object", num |-> len, str |-> << >>]

\* ToBoolean, as applied by ?: and ||
Truthy(v) ==
    CASE v.typeof = "undefined" -> FALSE
      [] v.typeof = "null"      -> FALSE
      [] v.typeof = "number"    -> v.num # 0
      [] v.typeof = "string"    -> v.str # << >>
      [] OTHER                  -> TRUE

LowerChar(c) ==
    CASE c = "A" -> "a"
      [] c = "E" -> "e"
      [] OTHER   -> c

\* String.prototype.toLowerCase
ToLowerCase(s) == [i \in 1..Len(s) |-> LowerChar(s[i])]

\* String.prototype.includes: scan the start positions from the left
RECURSIVE IncludesFrom(_, _, _)
IncludesFrom(s, sub, k) ==
    IF k + Len(sub) > Len(s) THEN FALSE
    ELSE IF SubSeq(s, k + 1, k + Len(sub)) = sub THEN TRUE
    ELSE IncludesFrom(s, sub, k + 1)

Includes(s, sub) == IncludesFrom(s, sub, 0)

\* Number.prototype.toFixed(2) of the quotient num / den of two non-negative
\* integers, as the number of hundredths: the nearest one, the larger of two
\* equally near
ToFixed2(num, den) == (200 * num + den) \div (2 * den)

----------------------------------------------------------------------------
(* fetchSolarSystemData: the transformation, lines 28-39 *)

SliceLimit == 15

KmPerAU == 149598000

Unknown == Str(<<"Unknown">>)

Prehistoric == Str(<<"Prehistoric">>)

\* line 29
Qualifies(body) == body.isPlanet \/ body.bodyType = "Dwarf Planet"

\* slice(0, 16): the end index taken as inclusive
Slice_Inclusive(s) ==
    SubSeq(s, 1, IF Len(s) < SliceLimit + 1 THEN Len(s) ELSE SliceLimit + 1)

\* line 30
Slice(s) == SubSeq(s, 1, IF Len(s) < SliceLimit THEN Len(s) ELSE SliceLimit)

\* line 35: (semimajorAxis / 149598000).toFixed(2); the hundredths of a / K
\* rounded to the nearest are (a + K / 200) div (K / 100)
DistanceFromSun(body) ==
    IF Truthy(body.semimajorAxis)
    THEN Fixed2((body.semimajorAxis.num + KmPerAU \div 200) \div (KmPerAU \div 100))
    ELSE Unknown

\* line 36
Diameter(body) ==
    IF Truthy(body.meanRadius) THEN Num(body.meanRadius.num * 2) ELSE Unknown

\* line 37
Moons(body) == IF Truthy(body.moons) THEN body.moons.num ELSE 0

\* line 38
DiscoveryYear(body) ==
    IF Truthy(body.discoveryDate) THEN body.discoveryDate ELSE Prehistoric

\* lines 31-39, index counted from 0
MapBody(body, index) ==
    [ id              |-> index + 1,
      name            |-> body.englishName,
      type            |-> IF body.isPlanet THEN "planet" ELSE "dwarf planet",
      distanceFromSun |-> DistanceFromSun(body),
      diameter        |-> Diameter(body),
      moons           |-> Moons(body),
      discoveryYear   |-> DiscoveryYear(body) ]

\* slice(0, 15) applied before filter instead of after it
TransformedData_SliceFirst(bodies) ==
    LET kept == SelectSeq(Slice(bodies), Qualifies)
    IN  [i \in 1..Len(kept) |-> MapBody(kept[i], i - 1)]

\* lines 28-39
TransformedData(bodies) ==
    LET kept == Slice(SelectSeq(bodies, Qualifies))
    IN  [i \in 1..Len(kept) |-> MapBody(kept[i], i - 1)]

----------------------------------------------------------------------------
(* The payloads the endpoint may deliver *)

Big ==
    [ englishName   |-> Str(<<"a", "E">>), isPlanet |-> TRUE,
      bodyType      |-> "Planet",
      semimajorAxis |-> Num(778340821), meanRadius |-> Num(5000),
      moons         |-> Arr(3), discoveryDate |-> Null ]

Ceres ==
    [ englishName   |-> Str(<<"e", "A", "e">>), isPlanet |-> FALSE,
      bodyType      |-> "Dwarf Planet",
      semimajorAxis |-> Num(413690250), meanRadius |-> Undefined,
      moons         |-> Undefined, discoveryDate |-> Str(<<"01/01/1801">>) ]

Dark ==
    [ englishName   |-> Str(<<"A">>), isPlanet |-> FALSE,
      bodyType      |-> "Dwarf Planet",
      semimajorAxis |-> Num(0), meanRadius |-> Num(0),
      moons         |-> Arr(0), discoveryDate |-> Undefined ]

Rock ==
    [ englishName   |-> Str(<<"E">>), isPlanet |-> FALSE,
      bodyType      |-> "dwarf planet",
      semimajorAxis |-> Undefined, meanRadius |-> Num(12),
      moons         |-> Null, discoveryDate |-> Str(<< >>) ]

Nameless ==
    [ englishName   |-> Undefined, isPlanet |-> TRUE,
      bodyType      |-> "Planet",
      semimajorAxis |-> Undefined, meanRadius |-> Undefined,
      moons         |-> Undefined, discoveryDate |-> Undefined ]

Pool == {Big, Ceres, Dark, Rock, Nameless}

Periods == UNION {[1..k -> Pool] : k \in 1..MaxPeriod}

\* the list of length n that repeats the period p
Periodic(p, n) == [i \in 1..n |-> p[((i - 1) % Len(p)) + 1]]

RawLists == {Periodic(p, n) : p \in Periods, n \in 0..MaxRaw}

NoData == [hasBodies |-> FALSE, bodies |-> << >>]

\* a JSON object with a bodies array, or one without
Payloads == {NoData} \cup {[hasBodies |-> TRUE, bodies |-> l] : l \in RawLists}

SearchChars == {"E", "a"}

SearchTerms == UNION {[1..k -> SearchChars] : k \in 0..MaxSearchLen}

ObjectTypes == {"all", "planet", "dwarf planet"}

NetworkErrors == {"Failed to fetch"}

ParseErrors == {"Unexpected end of JSON input"}

----------------------------------------------------------------------------
(* Render: statistics and guards, lines 65-78 *)

\* line 66
totalObjects == Len(celestialObjects)

\* lines 68-71: the callback of the diameter reduce
AddDiameter(sum, obj) ==
    sum + (IF obj.diameter.typeof = "number" THEN obj.diameter.num ELSE 0)

\* line 74: the callback of the moons reduce
AddMoons(sum, obj) == sum + obj.moons

AddKnown(count, obj) ==
    count + (IF obj.diameter.typeof = "number" THEN 1 ELSE 0)

RECURSIVE ReduceDiameter(_, _, _)
\* Array.prototype.reduce with AddDiameter, from element k on
ReduceDiameter(s, k, acc) ==
    IF k > Len(s) THEN acc ELSE ReduceDiameter(s, k + 1, AddDiameter(acc, s[k]))

RECURSIVE ReduceMoons(_, _, _)
\* Array.prototype.reduce with AddMoons, from element k on
ReduceMoons(s, k, acc) ==
    IF k > Len(s) THEN acc ELSE ReduceMoons(s, k + 1, AddMoons(acc, s[k]))

RECURSIVE ReduceKnown(_, _, _)
ReduceKnown(s, k, acc) ==
    IF k > Len(s) THEN acc ELSE ReduceKnown(s, k + 1, AddKnown(acc, s[k]))

\* the mean taken over the objects of known diameter only
averageDiameter_KnownOnly ==
    IF ReduceKnown(celestialObjects, 1, 0) > 0
    THEN ToFixed2(ReduceDiameter(celestialObjects, 1, 0),
                  ReduceKnown(celestialObjects, 1, 0))
    ELSE 0

\* lines 67-72, in hundredths
averageDiameter ==
    IF Len(celestialObjects) > 0
    THEN ToFixed2(ReduceDiameter(celestialObjects, 1, 0), totalObjects)
    ELSE 0

\* the moons of the visible objects instead of all of them
totalMoons_OverFiltered ==
    IF Len(filteredObjects) > 0
    THEN ReduceMoons(filteredObjects, 1, 0)
    ELSE 0

\* lines 73-75
totalMoons ==
    IF Len(celestialObjects) > 0
    THEN ReduceMoons(celestialObjects, 1, 0)
    ELSE 0

\* lines 77-80: what the component returns
View ==
    IF crashed THEN "unmounted"
    ELSE IF loading THEN "Loading"
    ELSE IF Truthy(error) THEN "Error"
    ELSE "Dashboard"

----------------------------------------------------------------------------
(* Initial state and actions *)

Init ==
    /\ celestialObjects = << >>
    /\ filteredObjects = << >>
    /\ loading = TRUE
    /\ searchTerm = << >>
    /\ objectType = "all"
    /\ error = Null
    /\ pc = "mount"
    /\ data = NoData
    /\ outcome = "none"
    /\ requests = 0
    /\ filterPending = TRUE
    /\ crashed = FALSE

\* the catch block without setLoading(false)
Catch_KeepsLoading(message) ==
    /\ error' = Str(<<"Failed to fetch data: ">> \o <<message>>)
    /\ UNCHANGED loading
    /\ pc' = "done"

\* lines 44-47: message is the message of the error caught
Catch(message) ==
    /\ error' = Str(<<"Failed to fetch data: ">> \o <<message>>)
    /\ loading' = FALSE
    /\ pc' = "done"

\* useEffect without the empty dependency list: the effect runs again after
\* the renders that follow the end of the previous run
MountEffect_EveryRender ==
    /\ pc \in {"mount", "done"}
    /\ ~crashed
    /\ requests < 3
    /\ loading' = TRUE
    /\ error' = Null
    /\ requests' = requests + 1
    /\ pc' = "awaitFetch"
    /\ UNCHANGED << celestialObjects, filteredObjects, searchTerm, objectType,
                    data, outcome, filterPending, crashed >>

\* lines 51-53 and 14-19: the mount effect calls fetchSolarSystemData, which
\* runs up to its first await
MountEffect ==
    /\ pc = "mount"
    /\ ~crashed
    /\ loading' = TRUE
    /\ error' = Null
    /\ requests' = requests + 1
    /\ pc' = "awaitFetch"
    /\ UNCHANGED << celestialObjects, filteredObjects, searchTerm, objectType,
                    data, outcome, filterPending, crashed >>

\* line 19: fetch rejects
FetchRejects ==
    /\ pc = "awaitFetch"
    /\ ~filterPending
    /\ ~crashed
    /\ outcome' = "network failure"
    /\ \E message \in NetworkErrors : Catch(message)
    /\ UNCHANGED << celestialObjects, filteredObjects, searchTerm, objectType,
                    data, requests, filterPending, crashed >>

\* lines 19-25: fetch resolves with a response
FetchResolves ==
    /\ pc = "awaitFetch"
    /\ ~filterPending
    /\ ~crashed
    /\ \E ok \in BOOLEAN :
          IF ok
          THEN /\ pc' = "awaitJson"
               /\ UNCHANGED << error, loading, outcome >>
          ELSE /\ outcome' = "not ok"
               /\ Catch("Network response was not ok")
    /\ UNCHANGED << celestialObjects, filteredObjects, searchTerm, objectType,
                    data, requests, filterPending, crashed >>

\* line 25: response.json() rejects
JsonRejects ==
    /\ pc = "awaitJson"
    /\ ~filterPending
    /\ ~crashed
    /\ outcome' = "parse failure"
    /\ \E message \in ParseErrors : Catch(message)
    /\ UNCHANGED << celestialObjects, filteredObjects, searchTerm, objectType,
                    data, requests, filterPending, crashed >>

\* lines 25-43: response.json() resolves with d; the three updates are
\* applied in one render, after which the filter effect is scheduled
\* because celestialObjects changed
JsonResolves ==
    /\ pc = "awaitJson"
    /\ ~filterPending
    /\ ~crashed
    /\ \E d \in Payloads :
          /\ data' = d
          /\ IF d.hasBodies
             THEN /\ outcome' = "ok"
                  /\ celestialObjects' = TransformedData(d.bodies)
                  /\ filteredObjects' = TransformedData(d.bodies)
                  /\ loading' = FALSE
                  /\ pc' = "done"
                  /\ filterPending' = TRUE
                  /\ UNCHANGED error
             ELSE /\ outcome' = "no bodies"
                  /\ Catch("Cannot read properties of undefined (reading 'filter')")
                  /\ UNCHANGED << celestialObjects, filteredObjects, filterPending >>
    /\ UNCHANGED << searchTerm, objectType, requests, crashed >>

\* the comparison without toLowerCase
Matches_CaseSensitive(object) ==
    /\ Includes(object.name.str, searchTerm)
    /\ (objectType = "all" \/ object.type = objectType)

\* lines 58-60
Matches(object) ==
    /\ Includes(ToLowerCase(object.name.str), ToLowerCase(searchTerm))
    /\ (objectType = "all" \/ object.type = objectType)

\* the effect storing its result in celestialObjects as well
FilterEffect_Mutating ==
    /\ filterPending
    /\ pc # "mount"
    /\ ~crashed
    /\ filterPending' = FALSE
    /\ IF \E i \in 1..Len(celestialObjects) :
              celestialObjects[i].name.typeof # "string"
       THEN /\ crashed' = TRUE
            /\ UNCHANGED << celestialObjects, filteredObjects >>
       ELSE /\ filteredObjects' = SelectSeq(celestialObjects, Matches)
            /\ celestialObjects' = SelectSeq(celestialObjects, Matches)
            /\ UNCHANGED crashed
    /\ UNCHANGED << loading, searchTerm, objectType, error,
                    pc, data, outcome, requests >>

\* lines 56-63: the filter effect; reading toLowerCase of a name that is
\* not a string throws, and an error thrown by an effect unmounts the tree
FilterEffect ==
    /\ filterPending
    /\ pc # "mount"
    /\ ~crashed
    /\ filterPending' = FALSE
    /\ IF \E i \in 1..Len(celestialObjects) :
              celestialObjects[i].name.typeof # "string"
       THEN /\ crashed' = TRUE
            /\ UNCHANGED filteredObjects
       ELSE /\ filteredObjects' = SelectSeq(celestialObjects, Matches)
            /\ UNCHANGED crashed
    /\ UNCHANGED << celestialObjects, loading, searchTerm, objectType, error,
                    pc, data, outcome, requests >>

\* line 108: onChange of the search input, rendered only in the dashboard
SetSearchTerm ==
    /\ View = "Dashboard"
    /\ ~filterPending
    /\ \E value \in SearchTerms \ {searchTerm} : searchTerm' = value
    /\ filterPending' = TRUE
    /\ UNCHANGED << celestialObjects, filteredObjects, loading, objectType,
                    error, pc, data, outcome, requests, crashed >>

\* line 116: onChange of the type select, rendered only in the dashboard
SetObjectType ==
    /\ View = "Dashboard"
    /\ ~filterPending
    /\ \E value \in ObjectTypes \ {objectType} : objectType' = value
    /\ filterPending' = TRUE
    /\ UNCHANGED << celestialObjects, filteredObjects, loading, searchTerm,
                    error, pc, data, outcome, requests, crashed >>

Next ==
    \/ MountEffect
    \/ FetchRejects
    \/ FetchResolves
    \/ JsonRejects
    \/ JsonResolves
    \/ FilterEffect
    \/ SetSearchTerm
    \/ SetObjectType

Spec == Init /\ [][Next]_vars

----------------------------------------------------------------------------
(* Vocabulary of the properties *)

\* the payload was parsed, normalized and stored
Loaded == outcome = "ok"

\* the visible subset has been derived for the current criteria
FilterRan == ~filterPending /\ ~crashed

\* the payload record at position i is a planet or a "Dwarf Planet"
QualifiesAt(i) ==
    data.bodies[i].isPlanet \/ data.bodies[i].bodyType = "Dwarf Planet"

\* the positions in the payload of the records that qualify
QualifyingPositions == {i \in 1..Len(data.bodies) : QualifiesAt(i)}

RECURSIVE RanksFrom(_, _)
\* the ranks of the positions i, i + 1, ..., r records qualifying before i
RanksFrom(i, r) ==
    IF i > Len(data.bodies) THEN << >>
    ELSE LET here == IF QualifiesAt(i) THEN r + 1 ELSE r
         IN  <<here>> \o RanksFrom(i + 1, here)

\* for each position of the payload, the number of qualifying records up
\* to and including it: the place of a qualifying record among them
Ranks == RanksFrom(1, 0)

SameLetter(c1, c2) ==
    c1 = c2 \/ {c1, c2} = {"A", "a"} \/ {c1, c2} = {"E", "e"}

ContainsIgnoringCase(name, search) ==
    \E k \in 0..(Len(name) - Len(search)) :
        \A m \in 1..Len(search) : SameLetter(name[k + m], search[m])

ShouldBeVisible(object) ==
    /\ ContainsIgnoringCase(object.name.str, searchTerm)
    /\ (objectType = "all" \/ object.type = objectType)

RECURSIVE DiameterSumTo(_)
\* the numeric diameters of the first n objects, an unknown one counting 0
DiameterSumTo(n) ==
    IF n = 0 THEN 0
    ELSE DiameterSumTo(n - 1)
         + (IF celestialObjects[n].diameter = Unknown THEN 0
            ELSE celestialObjects[n].diameter.num)

RECURSIVE MoonSumTo(_)
MoonSumTo(n) ==
    IF n = 0 THEN 0 ELSE MoonSumTo(n - 1) + celestialObjects[n].moons

Aggregates == << totalObjects, averageDiameter, totalMoons >>

\* a step that changes the search text or the category, or derives the
\* visible subset
CriteriaStep ==
    \/ searchTerm' # searchTerm
    \/ objectType' # objectType
    \/ (filterPending /\ ~filterPending')

\* the request failed, or its payload has no bodies array
FetchFailed ==
    outcome \in {"network failure", "not ok", "parse failure", "no bodies"}

----------------------------------------------------------------------------
(* Properties *)

\* C1: once the filter effect has run for the current dataset, search text
\* and category, the visible subset holds exactly the objects whose name
\* contains the search text, letter case ignored, and whose type is the
\* selected one (or any, for 'all'), in the order of the dataset; with the
\* empty search and 'all' it is the dataset.
C1_VisibleIsExactlyTheMatches ==
    FilterRan =>
        /\ \A j \in 1..Len(filteredObjects) :
              /\ filteredObjects[j].id \in 1..Len(celestialObjects)
              /\ filteredObjects[j] = celestialObjects[filteredObjects[j].id]
        /\ \A j \in 1..(Len(filteredObjects) - 1) :
              filteredObjects[j].id < filteredObjects[j + 1].id
        /\ \A i \in 1..Len(celestialObjects) :
              ShouldBeVisible(celestialObjects[i])
                  <=> \E j \in 1..Len(filteredObjects) : filteredObjects[j].id = i
        /\ (searchTerm = << >> /\ objectType = "all")
              => filteredObjects = celestialObjects

\* the search "Ea" with the category 'dwarf planet' shows some objects (a name
\* that holds "eA") and hides others
C1_Witness ==
    /\ Loaded /\ FilterRan
    /\ searchTerm = <<"E", "a">>
    /\ objectType = "dwarf planet"
    /\ Len(filteredObjects) > 0
    /\ Len(filteredObjects) < Len(celestialObjects)
    /\ \E j \in 1..Len(filteredObjects) :
          ~Includes(filteredObjects[j].name.str, searchTerm)

\* C2: the normalized dataset is the first min(15, k) of the k payload
\* records that are planets or of body type "Dwarf Planet", in input order,
\* the i-th with id i; it is no longer than 15 nor than the payload.
C2_FirstFifteenQualifyingInOrder ==
    Loaded =>
        LET k == Cardinality(QualifyingPositions)
            n == Len(celestialObjects)
            rank == Ranks
        IN  /\ n = (IF k < 15 THEN k ELSE 15)
            /\ n <= 15
            /\ n <= Len(data.bodies)
            /\ \A j \in 1..n : celestialObjects[j].id = j
            /\ \A i \in QualifyingPositions :
                  rank[i] <= 15 =>
                      /\ celestialObjects[rank[i]].name = data.bodies[i].englishName
                      /\ celestialObjects[rank[i]].moons
                            = (IF data.bodies[i].moons.typeof = "object"
                               THEN data.bodies[i].moons.num ELSE 0)

\* the payload of 20 qualifying records
C2_WitnessTwenty ==
    /\ Loaded
    /\ Len(data.bodies) = 20
    /\ Cardinality(QualifyingPositions) = 20
    /\ Len(celestialObjects) = 15

\* C3: the dataset never holds more than 15 entries, and the type of each is
\* 'planet' when the planet flag of its source record is true and the dwarf
\* planet tag otherwise.
C3_AtMostFifteenTyped ==
    LET rank == Ranks
    IN  /\ Len(celestialObjects) <= 15
        /\ \A j \in 1..Len(celestialObjects) :
              celestialObjects[j].type \in {"planet", "dwarf planet"}
        /\ \A i \in QualifyingPositions :
              rank[i] <= Len(celestialObjects) =>
                  (celestialObjects[rank[i]].type = "planet"
                      <=> data.bodies[i].isPlanet)

C3_Witness ==
    /\ Len(celestialObjects) = 15
    /\ Len(SelectSeq(data.bodies, Qualifies)) > 15
    /\ \E i, j \in 1..15 : celestialObjects[i].type # celestialObjects[j].type

\* C4: after a failed fetch (network failure, status not ok, JSON that does
\* not parse or has no bodies) the error message is set, loading is false,
\* the dataset and the visible subset are empty and the render is the error
\* alone.
C4_FailureIsOneErrorState ==
    FetchFailed =>
        /\ error.typeof = "string"
        /\ Truthy(error)
        /\ loading = FALSE
        /\ celestialObjects = << >>
        /\ filteredObjects = << >>
        /\ View = "Error"

C4_Witness ==
    /\ outcome = "parse failure"
    /\ pc = "done"
    /\ View = "Error"

\* C5: no change of the search text or of the category, and no derivation
\* of the visible subset, changes the three statistics.
C5_AggregatesIgnoreCriteria ==
    [][CriteriaStep => Aggregates' = Aggregates]_vars

\* criteria that hide a part of a dataset with moons and known diameters
C5_Witness ==
    /\ Loaded /\ FilterRan
    /\ searchTerm # << >>
    /\ Len(filteredObjects) < Len(celestialObjects)
    /\ totalMoons > 0
    /\ averageDiameter > 0

\* C6: averageDiameter is the sum of the numeric diameters (an unknown one
\* counting 0) divided by the number of all entries, rounded to two
\* fraction digits, and 0 for the empty dataset; totalMoons is the sum of
\* the moons; the diameters [unknown, 10000] give 5000.00.
C6_AverageCountsUnknownAsZero ==
    LET n == Len(celestialObjects)
        sum == DiameterSumTo(n)
    IN  /\ n = 0 => averageDiameter = 0 /\ totalMoons = 0
        /\ n > 0 =>
              /\ 200 * sum - n < 2 * averageDiameter * n
              /\ 2 * averageDiameter * n <= 200 * sum + n
        /\ totalMoons = MoonSumTo(n)
        /\ (/\ n = 2
            /\ celestialObjects[1].diameter = Unknown
            /\ celestialObjects[2].diameter = Num(10000))
              => averageDiameter = 500000

C6_Witness ==
    /\ Len(celestialObjects) = 2
    /\ celestialObjects[1].diameter = Unknown
    /\ celestialObjects[2].diameter = Num(10000)
    /\ averageDiameter = 500000
    /\ totalMoons = 3

\* C7: once the dataset has been stored, no step changes it.
C7_DatasetIsNeverMutated ==
    [][Loaded => celestialObjects' = celestialObjects]_vars

\* the visible subset has been rewritten to nothing, the dataset is whole
C7_Witness ==
    /\ Loaded /\ FilterRan
    /\ Len(celestialObjects) > 1
    /\ filteredObjects = << >>

\* C8: normalization and filtering never raise, whichever optional fields
\* are absent.
C8_NeverRaises == ~crashed

\* C9: the diameter is twice the mean radius whenever a mean radius is
\* present, 0 included, and unknown only when the mean radius is absent.
C9_DiameterIsTwiceRadius ==
    Loaded =>
        LET rank == Ranks
        IN  \A i \in QualifyingPositions :
                rank[i] <= 15 =>
                    LET radius == data.bodies[i].meanRadius
                    IN  IF radius.typeof = "number"
                        THEN celestialObjects[rank[i]].diameter = Num(2 * radius.num)
                        ELSE celestialObjects[rank[i]].diameter = Unknown

\* C10: one request is issued, and once the error is set no step clears it,
\* sets loading again or stores data.
C10_ErrorIsTerminal ==
    /\ [](requests <= 1)
    /\ [](pc # "mount" => requests = 1)
    /\ [][Truthy(error) =>
            /\ error' = error
            /\ loading' = FALSE
            /\ View' = "Error"
            /\ celestialObjects' = << >>
            /\ filteredObjects' = << >>]_vars

C10_Witness ==
    /\ Truthy(error)
    /\ requests = 1
    /\ pc = "done"
    /\ FilterRan

====
